---- MODULE Spec2Model ----
(***************************************************************************)
(* Model of dcc_backend_common.logger: the path classifier and the focused *)
(* traceback formatter (focused_traceback.py) and the logger               *)
(* initialisation (logger.py).                                             *)
(*                                                                         *)
(* Text is a sequence of one-character strings, so that substring,         *)
(* split, strip, slicing and lower-casing are computed character by        *)
(* character.  One record of `sio` stands for one sio.write call and       *)
(* carries the values interpolated into the written string.                *)
(***************************************************************************)
EXTENDS Integers, Sequences, FiniteSets, TLC

VARIABLES
    environ,           \* os.environ: variable name -> [set, val]
    formatter,         \* the FocusedTracebackFormatter instance (self.*)
    exc_tb,            \* the traceback chain handed to the format call
    sio,               \* the writes of the last format call, in order
    outcome,           \* "ready" | "returned" | "raised": the last format call
    calls,             \* format calls made so far
    call_environ,      \* environ as it was when the last format call ran
    filename,          \* the path handed to _is_user_code_frame
    answer,            \* "none" | "true" | "false": what it returned
    structlog_config,  \* structlog's configuration: [is_configured, processors]
    root_logger,       \* logging.getLogger(): [level, handlers]
    lib_propagate,     \* logging.getLogger("uvicorn.access").propagate
    init_outcome,      \* "never" | "ok" | "raised": the last init_logger call
    configured_environ, \* environ as it was when structlog.configure last ran
    event_dict,        \* the log record handed to a processor: field -> value
    seen,              \* the format calls made so far: inputs and output
    pc,                \* where a stepwise call is: "idle" | "walking" for a
                       \* format call, the next processor for a log record
    current_tb,        \* the index in exc_tb of the node the walk is at
    walk_user_frames,  \* user_frames of the walk in progress
    heap,              \* the objects local names are bound to: ref -> value
    snapshot           \* the bindings' values as they were at each capture

vars == <<environ, formatter, exc_tb, sio, outcome, calls, call_environ,
          filename, answer,
          structlog_config, root_logger, lib_propagate, init_outcome,
          configured_environ,
          event_dict, seen, pc, current_tb, walk_user_frames, heap, snapshot>>

fmt_vars == <<formatter, exc_tb, sio, outcome, calls, call_environ>>
cls_vars == <<filename, answer>>
log_vars == <<structlog_config, root_logger, lib_propagate, init_outcome,
              configured_environ>>
walk_vars == <<pc, current_tb, walk_user_frames, heap, snapshot>>
\* what the whole-call actions of the formatter and the logger leave alone
ext_vars == <<event_dict, walk_vars>>

(***************************************************************************)
(* Bounds of the model.                                                    *)
(***************************************************************************)
MaxPathLen == 3      \* generated file paths have at most this many characters
MaxEnvLen == 4       \* generated LOGGER_USER_CODE_PATHS values, likewise
MaxChain == 5        \* frames of a traceback chain
MaxLocals == 2       \* bindings of an exhaustively generated frame
MaxRepr == 3         \* characters of a generated repr()
MaxCalls == 3        \* format calls of one behaviour
MaxHandlers == 3     \* init_logger calls of one behaviour

(***************************************************************************)
(* Text: Python str operations, character by character.                    *)
(***************************************************************************)
Whitespace == {" ", "\t"}

\* All texts over `alphabet` of length at most n.
TextsUpTo(alphabet, n) == UNION {[1..k -> alphabet] : k \in 0..n}

\* `p in s` of two str.
str_contains(p, s) ==
    \E i \in 0..(Len(s) - Len(p)) : SubSeq(s, i + 1, i + Len(p)) = p

\* s.startswith(p)
str_startswith(s, p) == Len(p) <= Len(s) /\ SubSeq(s, 1, Len(p)) = p

RECURSIVE str_split_from(_, _, _, _)
str_split_from(s, sep, cur, acc) ==
    IF s = <<>> THEN Append(acc, cur)
    ELSE IF Head(s) = sep
         THEN str_split_from(Tail(s), sep, <<>>, Append(acc, cur))
         ELSE str_split_from(Tail(s), sep, Append(cur, Head(s)), acc)

\* s.split(sep) for a one-character separator: "" splits to [""].
str_split(s, sep) == str_split_from(s, sep, <<>>, <<>>)

RECURSIVE str_lstrip(_)
str_lstrip(s) ==
    IF s # <<>> /\ Head(s) \in Whitespace THEN str_lstrip(Tail(s)) ELSE s

RECURSIVE str_rstrip(_)
str_rstrip(s) ==
    IF s # <<>> /\ s[Len(s)] \in Whitespace
    THEN str_rstrip(SubSeq(s, 1, Len(s) - 1))
    ELSE s

\* s.strip()
str_strip(s) == str_rstrip(str_lstrip(s))

RECURSIVE str_join(_, _)
\* sep.join(parts)
str_join(sep, parts) ==
    IF parts = <<>> THEN <<>>
    ELSE IF Len(parts) = 1 THEN parts[1]
    ELSE parts[1] \o <<sep>> \o str_join(sep, Tail(parts))

\* s[-n:] of a list
LastN(s, n) == IF Len(s) <= n THEN s ELSE SubSeq(s, Len(s) - n + 1, Len(s))

LowerOf(c) ==
    CASE c = "T" -> "t" [] c = "R" -> "r" [] c = "U" -> "u" [] c = "E" -> "e"
      [] c = "I" -> "i" [] c = "C" -> "c" [] c = "H" -> "h" [] c = "F" -> "f"
      [] c = "A" -> "a" [] c = "L" -> "l" [] c = "S" -> "s" [] c = "O" -> "o"
      [] c = "D" -> "d" [] c = "B" -> "b" [] c = "G" -> "g" [] c = "N" -> "n"
      [] c = "W" -> "w"
      [] OTHER -> c

UpperOf(c) ==
    CASE c = "t" -> "T" [] c = "r" -> "R" [] c = "u" -> "U" [] c = "e" -> "E"
      [] c = "i" -> "I" [] c = "c" -> "C" [] c = "h" -> "H" [] c = "f" -> "F"
      [] c = "a" -> "A" [] c = "l" -> "L" [] c = "s" -> "S" [] c = "o" -> "O"
      [] c = "d" -> "D" [] c = "b" -> "B" [] c = "g" -> "G" [] c = "n" -> "N"
      [] c = "w" -> "W"
      [] OTHER -> c

\* s.lower() and s.upper()
str_lower(s) == [i \in 1..Len(s) |-> LowerOf(s[i])]
str_upper(s) == [i \in 1..Len(s) |-> UpperOf(s[i])]

(***************************************************************************)
(* os.environ                                                              *)
(***************************************************************************)
Unset == [set |-> FALSE, val |-> <<>>]
SetTo(v) == [set |-> TRUE, val |-> v]

\* os.getenv(name, default)
getenv(env, name, default) == IF env[name].set THEN env[name].val ELSE default

EnvNames == {"LOGGER_USER_CODE_PATHS", "IS_PROD", "DEV_TRACEBACK_STYLE",
             "LOG_LEVEL"}

EmptyEnviron == [n \in EnvNames |-> Unset]

(***************************************************************************)
(* PathClassifier: focused_traceback.py, lines 16-31.                      *)
(***************************************************************************)
DEFAULT_USER_CODE_PATHS ==
    << <<"d","c","c","_","b","a","c","k","e","n","d","_","c","o","m","m","o","n">>,
       <<"s","r","c","/">>,
       <<"a","p","p","/">>,
       <<"t","e","s","t","s","/">> >>

\* tuple(p.strip() for p in env_paths.split(",") if p.strip())
custom_paths(env_paths) ==
    LET parts == str_split(env_paths, ",")
        kept == SelectSeq(parts, LAMBDA p : str_strip(p) # <<>>)
    IN  [i \in 1..Len(kept) |-> str_strip(kept[i])]

\* A plausible slip: the override replaces the defaults.
get_user_code_paths_replacing(env) ==
    LET env_paths == getenv(env, "LOGGER_USER_CODE_PATHS", <<>>)
    IN  IF env_paths # <<>> THEN custom_paths(env_paths)
        ELSE DEFAULT_USER_CODE_PATHS

_get_user_code_paths(env) ==
    LET env_paths == getenv(env, "LOGGER_USER_CODE_PATHS", <<>>)
    IN  IF env_paths # <<>>
        THEN DEFAULT_USER_CODE_PATHS \o custom_paths(env_paths)
        ELSE DEFAULT_USER_CODE_PATHS

\* any(path in filename for path in user_paths)
_is_user_code_frame(env, fname) ==
    LET user_paths == _get_user_code_paths(env)
    IN  \E i \in 1..Len(user_paths) : str_contains(user_paths[i], fname)

(***************************************************************************)
(* Values, frames and traceback chains.                                    *)
(*                                                                         *)
(* A value is what the formatter can observe of it: whether callable(v)    *)
(* holds, and whether repr(v) returns a text or raises an Exception.       *)
(* A traceback chain is the sequence of its nodes from the head along      *)
(* tb_next; a node carries tb_lineno and its frame's f_code and f_locals   *)
(* (a dict: bindings in insertion order, names distinct).                  *)
(***************************************************************************)
Data(text) == [callable |-> FALSE, repr_ok |-> TRUE, repr_text |-> text]
Callable == [callable |-> TRUE, repr_ok |-> TRUE, repr_text |-> <<"<", "f", ">">>]
Hostile == [callable |-> FALSE, repr_ok |-> FALSE, repr_text |-> <<>>]

Bind(n, v) == [name |-> n, value |-> v]

TbNode(fname, lineno, name, locals) ==
    [co_filename |-> fname, tb_lineno |-> lineno, co_name |-> name,
     f_locals |-> locals]

\* The writes: one record per sio.write call.
Write(kind, path, lineno, name, text, frames) ==
    [kind |-> kind, path |-> path, lineno |-> lineno, name |-> name,
     text |-> text, frames |-> frames]

ELLIPSIS == <<".", ".", ".">>
REPR_FAILED == <<"<", "r", "e", "p", "r", " ", "f", "a", "i", "l", "e", "d", ">">>
SELF == <<"s", "e", "l", "f">>
CLS == <<"c", "l", "s">>

(***************************************************************************)
(* The delegate renderer: rich.traceback.Traceback built with max_frames   *)
(* and show_locals=False, printed to a temporary buffer                    *)
(* (focused_traceback.py, lines 67-80).  Rich keeps max(4, max_frames)     *)
(* (0: no limit) and hides the frames whose index lies in                  *)
(* range(max_frames // 2, len(frames) - max_frames // 2).                  *)
(***************************************************************************)
RichMaxFrames(max_frames) ==
    IF max_frames > 0 THEN (IF max_frames < 4 THEN 4 ELSE max_frames) ELSE 0

RichShown(max_frames, n) ==
    LET m == RichMaxFrames(max_frames)
    IN  {i \in 1..n : ~(m # 0 /\ m \div 2 <= i - 1 /\ i - 1 < n - m \div 2)}

FrameId(node) ==
    [co_filename |-> node.co_filename, tb_lineno |-> node.tb_lineno,
     co_name |-> node.co_name]

\* temp_buffer.getvalue(): the frames the base trace shows.
base_trace(self, tb) ==
    {FrameId(tb[i]) : i \in RichShown(self.max_frames, Len(tb))}

(***************************************************************************)
(* FocusedTracebackFormatter._print_user_code_locals: lines 85-144.        *)
(***************************************************************************)
RECURSIVE walk_reversed(_, _, _)
\* A plausible slip: the qualifying frames are collected innermost first.
walk_reversed(env, tb, user_frames) ==
    IF tb = <<>> THEN user_frames
    ELSE LET node == Head(tb)
         IN  walk_reversed(env, Tail(tb),
                 IF _is_user_code_frame(env, node.co_filename)
                 THEN <<[filename |-> node.co_filename,
                         lineno |-> node.tb_lineno,
                         name |-> node.co_name,
                         locals |-> node.f_locals]>> \o user_frames
                 ELSE user_frames)

RECURSIVE walk(_, _, _)
\* Lines 89-102: the while loop over current_tb, appending to user_frames.
walk(env, tb, user_frames) ==
    IF tb = <<>> THEN user_frames
    ELSE LET node == Head(tb)
         IN  walk(env, Tail(tb),
                 IF _is_user_code_frame(env, node.co_filename)
                 THEN Append(user_frames,
                         [filename |-> node.co_filename,
                          lineno |-> node.tb_lineno,
                          name |-> node.co_name,
                          locals |-> node.f_locals])
                 ELSE user_frames)

\* Line 117-118: "/".join(filename.split("/")[-3:])
short_path(fname) == str_join("/", LastN(str_split(fname, "/"), 3))

\* A plausible slip: callables are not filtered out.
filtered_locals_keeping_callables(locals_dict) ==
    SelectSeq(locals_dict,
        LAMBDA b : /\ ~str_startswith(b.name, <<"_">>)
                   /\ b.name \notin {SELF, CLS})

\* Lines 127-131: the dict comprehension, in the dict's order.
filtered_locals(locals_dict) ==
    SelectSeq(locals_dict,
        LAMBDA b : /\ ~str_startswith(b.name, <<"_">>)
                   /\ b.name \notin {SELF, CLS}
                   /\ ~b.value.callable)

\* A plausible slip: the slice is one character short.
truncate_off_by_one(self, repr_value) ==
    IF Len(repr_value) > self.locals_max_string
    THEN SubSeq(repr_value, 1, self.locals_max_string - 1) \o ELLIPSIS
    ELSE repr_value

\* Lines 140-141.
truncate(self, repr_value) ==
    IF Len(repr_value) > self.locals_max_string
    THEN SubSeq(repr_value, 1, self.locals_max_string) \o ELLIPSIS
    ELSE repr_value

\* An exception leaving the writing loop: it marks, in the sequence of writes,
\* the point where the call ends; nothing after it reaches the sink.
PROPAGATE == Write("raise", <<>>, 0, <<>>, <<>>, {})

\* A plausible slip: no try/except around repr().
write_local_uncaught(self, b) ==
    IF b.value.repr_ok
    THEN Write("var", <<>>, 0, b.name, truncate(self, b.value.repr_text), {})
    ELSE PROPAGATE

\* Lines 138-144: the try block of one binding.
write_local(self, b) ==
    IF b.value.repr_ok
    THEN Write("var", <<>>, 0, b.name, truncate(self, b.value.repr_text), {})
    ELSE Write("var", <<>>, 0, b.name, REPR_FAILED, {})

\* A plausible slip: one marker for both empty cases.
write_frame_locals_one_marker(self, locals_dict) ==
    IF filtered_locals(locals_dict) = <<>>
    THEN <<Write("no_locals", <<>>, 0, <<>>, <<>>, {})>>
    ELSE LET fl == filtered_locals(locals_dict)
         IN  [i \in 1..Len(fl) |-> write_local(self, fl[i])]

\* Lines 121-144: the writes after one frame's header.
write_frame_locals(self, locals_dict) ==
    IF locals_dict = <<>>
    THEN <<Write("no_locals", <<>>, 0, <<>>, <<>>, {})>>
    ELSE LET fl == filtered_locals(locals_dict)
         IN  IF fl = <<>>
             THEN <<Write("no_relevant", <<>>, 0, <<>>, <<>>, {})>>
             ELSE [i \in 1..Len(fl) |-> write_local(self, fl[i])]

RECURSIVE write_frames(_, _, _)
\* Lines 116-144: the for loop over user_frames.
write_frames(self, user_frames, written) ==
    IF user_frames = <<>> THEN written
    ELSE LET frame_info == Head(user_frames)
             header == Write("frame", short_path(frame_info.filename),
                             frame_info.lineno, frame_info.name, <<>>, {})
         IN  write_frames(self, Tail(user_frames),
                 Append(written, header)
                     \o write_frame_locals(self, frame_info.locals))

\* The writes up to and including the first uncaught error, if any.
UpToRaise(ws) ==
    IF \E i \in 1..Len(ws) : ws[i] = PROPAGATE
    THEN SubSeq(ws, 1, CHOOSE i \in 1..Len(ws) :
             ws[i] = PROPAGATE /\ \A j \in 1..(i - 1) : ws[j] # PROPAGATE)
    ELSE ws

\* A plausible slip: the section header is written before the emptiness test.
print_user_code_locals_header_first(self, env, tb) ==
    UpToRaise(write_frames(self, walk(env, tb, <<>>),
        <<Write("section", <<>>, 0, <<>>, <<>>, {})>>))

\* Lines 85-144.
_print_user_code_locals(self, env, tb) ==
    LET user_frames == walk(env, tb, <<>>)
    IN  IF user_frames = <<>> THEN <<>>
        ELSE UpToRaise(write_frames(self, user_frames,
                 <<Write("section", <<>>, 0, <<>>, <<>>, {})>>))

\* Lines 62-83, the delegate having rendered the base trace.
format_writes(self, env, tb) ==
    <<Write("base", <<>>, 0, <<>>, <<>>, base_trace(self, tb))>>
        \o _print_user_code_locals(self, env, tb)

(***************************************************************************)
(* The format call, FocusedTracebackFormatter.__call__: lines 62-83.       *)
(* The delegate renderer may fail (lines 67-79, before the first write);   *)
(* its failure is not caught.                                              *)
(***************************************************************************)
Raises(ws) == \E i \in 1..Len(ws) : ws[i] = PROPAGATE

\* A plausible slip: the Console writes into the sink itself, so that what
\* the delegate rendered before it failed is in the sink.
call_rendering_into_sink ==
    /\ calls < MaxCalls
    /\ \E delegate_fails \in BOOLEAN :
          LET ws == IF delegate_fails
                    THEN <<Write("base", <<>>, 0, <<>>, <<>>, {}), PROPAGATE>>
                    ELSE format_writes(formatter, environ, exc_tb)
          IN  /\ sio' = SelectSeq(ws, LAMBDA w : w # PROPAGATE)
              /\ outcome' = IF delegate_fails THEN "DelegateError"
                            ELSE IF Raises(ws) THEN "ReprError"
                            ELSE "returned"
    /\ calls' = calls + 1
    /\ call_environ' = environ
    /\ UNCHANGED <<environ, formatter, exc_tb, cls_vars, log_vars, ext_vars>>

\* A plausible slip: the temporary buffer is made once, in __init__, and is
\* never emptied, so that a call writes the earlier base traces again.
call_reusing_buffer ==
    /\ calls < MaxCalls
    /\ \E delegate_fails \in BOOLEAN :
          LET ws == IF delegate_fails THEN <<PROPAGATE>>
                    ELSE format_writes(formatter, environ, exc_tb)
          IN  /\ sio' = SelectSeq(sio, LAMBDA w : w.kind = "base")
                         \o SelectSeq(ws, LAMBDA w : w # PROPAGATE)
              /\ outcome' = IF delegate_fails THEN "DelegateError"
                            ELSE IF Raises(ws) THEN "ReprError"
                            ELSE "returned"
    /\ calls' = calls + 1
    /\ call_environ' = environ
    /\ UNCHANGED <<environ, formatter, exc_tb, cls_vars, log_vars, ext_vars>>

__call__ ==
    /\ calls < MaxCalls
    /\ \E delegate_fails \in BOOLEAN :
          LET ws == IF delegate_fails THEN <<PROPAGATE>>
                    ELSE format_writes(formatter, environ, exc_tb)
          IN  /\ sio' = SelectSeq(ws, LAMBDA w : w # PROPAGATE)
              /\ outcome' = IF delegate_fails THEN "DelegateError"
                            ELSE IF Raises(ws) THEN "ReprError"
                            ELSE "returned"
    /\ calls' = calls + 1
    /\ call_environ' = environ
    /\ UNCHANGED <<environ, formatter, exc_tb, cls_vars, log_vars, ext_vars>>

(***************************************************************************)
(* The environment changes between calls (os.environ[...] = ..., del).     *)
(***************************************************************************)
MY == <<"m", "y", "/">>
UserCodePathsChoices == {Unset, SetTo(<<" ">> \o MY \o <<" ", ",">>)}

set_user_code_paths ==
    /\ \E v \in UserCodePathsChoices :
          /\ v # environ["LOGGER_USER_CODE_PATHS"]
          /\ environ' = [environ EXCEPT !["LOGGER_USER_CODE_PATHS"] = v]
    /\ UNCHANGED <<fmt_vars, cls_vars, log_vars, ext_vars, seen>>

(***************************************************************************)
(* Inputs of the formatter.                                                *)
(***************************************************************************)
X == <<"x">>
Y == <<"y">>
UT == <<"_", "t">>

\* a frame of the project's src/ tree
UserSrc ==
    TbNode(<<"/", "w", "/", "p", "/", "s", "r", "c", "/", "a", ".", "p", "y">>,
           0, <<"h">>,
           <<Bind(SELF, Data(<<"o">>)), Bind(X, Data(<<"4", "2">>))>>)
\* a frame of a library
Lib ==
    TbNode(<<"/", "l", "i", "b", "/", "j", "s", "o", "n", ".", "p", "y">>,
           0, <<"d">>,
           <<Bind(<<"o">>, Data(<<"a", "b", "c">>))>>)
\* a frame that is user code only under the override
Proj ==
    TbNode(<<"/", "m", "y", "/", "k", ".", "p", "y">>, 0, <<"k">>, <<>>)

FrameShapes == {UserSrc, Lib, Proj}

\* tb_lineno tells the nodes of one chain apart
Numbered(shapes) ==
    [i \in 1..Len(shapes) |-> [shapes[i] EXCEPT !.tb_lineno = i]]

Chains == {Numbered(s) : s \in UNION {[1..n -> FrameShapes] : n \in 0..MaxChain}}

MaxFramesChoices == {0, 4}

NoCallYet ==
    /\ sio = <<>>
    /\ outcome = "ready"
    /\ calls = 0
    /\ call_environ = environ

ClassifierIdle == filename = <<>> /\ answer = "none"

\* the process before any init_logger call: structlog not configured, the
\* root logger at logging's default level WARNING with no handler
LoggerIdle ==
    /\ structlog_config = [is_configured |-> FALSE, processors |-> <<>>]
    /\ root_logger = [level |-> 30, handlers |-> 0]
    /\ lib_propagate = TRUE
    /\ init_outcome = "never"
    /\ configured_environ = EmptyEnviron

\* no record in a processor, no call recorded, no stepwise call in progress
ProcessorIdle == event_dict = <<>>
HistoryIdle == seen = {}
WalkIdle ==
    /\ pc = "idle"
    /\ current_tb = 0
    /\ walk_user_frames = <<>>
    /\ heap = <<>>
    /\ snapshot = <<>>

Init ==
    /\ environ \in {[EmptyEnviron EXCEPT !["LOGGER_USER_CODE_PATHS"] = v] :
                       v \in UserCodePathsChoices}
    /\ formatter \in [width : {100}, max_frames : MaxFramesChoices,
                      locals_max_string : {80}]
    /\ exc_tb \in Chains
    /\ NoCallYet
    /\ ClassifierIdle
    /\ LoggerIdle
    /\ ProcessorIdle
    /\ HistoryIdle
    /\ WalkIdle

Next == (__call__ /\ UNCHANGED seen) \/ set_user_code_paths

Spec == Init /\ [][Next]_vars

(***************************************************************************)
(* What the claims speak of, stated without the code's operators.          *)
(***************************************************************************)
\* p occurs in s at offset i, character for character
OccursAt(p, s, i) ==
    /\ i + Len(p) <= Len(s)
    /\ \A k \in 1..Len(p) : s[i + k] = p[k]

Occurs(p, s) == \E i \in 0..Len(s) : OccursAt(p, s, i)

\* the comma-separated entries of e: its maximal comma-free stretches
Entries(e) ==
    {SubSeq(e, i, j) : <<i, j>> \in
        {ij \in (1..(Len(e) + 1)) \X (0..Len(e)) :
            /\ ij[2] >= ij[1] - 1
            /\ (ij[1] = 1 \/ e[ij[1] - 1] = ",")
            /\ (ij[2] = Len(e) \/ e[ij[2] + 1] = ",")
            /\ \A k \in ij[1]..ij[2] : e[k] # ","}}

\* seg without its leading and trailing whitespace
Trimmed(seg) ==
    {SubSeq(seg, a, b) : <<a, b>> \in
        {ab \in (1..(Len(seg) + 1)) \X (0..Len(seg)) :
            /\ ab[2] >= ab[1] - 1
            /\ \A k \in 1..(ab[1] - 1) : seg[k] \in Whitespace
            /\ \A k \in (ab[2] + 1)..Len(seg) : seg[k] \in Whitespace
            /\ (ab[1] <= ab[2] =>
                    seg[ab[1]] \notin Whitespace /\ seg[ab[2]] \notin Whitespace)}}

Defaults == {DEFAULT_USER_CODE_PATHS[i] : i \in 1..Len(DEFAULT_USER_CODE_PATHS)}

\* the user-code pattern set under env
PatternSet(env) ==
    Defaults \cup
    (IF env["LOGGER_USER_CODE_PATHS"].set
     THEN UNION {Trimmed(seg) : seg \in Entries(env["LOGGER_USER_CODE_PATHS"].val)}
             \ {<<>>}
     ELSE {})

Matches(env, path) == \E p \in PatternSet(env) : Occurs(p, path)
MatchesDefault(path) == \E p \in Defaults : Occurs(p, path)

Slashes(t) == Cardinality({i \in 1..Len(t) : t[i] = "/"})

\* t is the last three "/"-separated segments of f
IsCompactPath(t, f) ==
    /\ Len(t) <= Len(f)
    /\ SubSeq(f, Len(f) - Len(t) + 1, Len(f)) = t
    /\ \/ t = f /\ Slashes(f) <= 2
       \/ Len(t) < Len(f) /\ f[Len(f) - Len(t)] = "/" /\ Slashes(t) = 2

\* the writes after the base trace
Focused(ws) == IF ws = <<>> THEN <<>> ELSE Tail(ws)

HeaderPositions(b) == {i \in 1..Len(b) : b[i].kind = "frame"}

KthHeader(b, k) ==
    CHOOSE i \in HeaderPositions(b) :
        Cardinality({j \in HeaderPositions(b) : j <= i}) = k

\* the writes between the k-th frame header and the next one (or the end)
SegmentOf(b, k) ==
    LET h == KthHeader(b, k)
        nxt == IF k < Cardinality(HeaderPositions(b))
               THEN KthHeader(b, k + 1) ELSE Len(b) + 1
    IN  SubSeq(b, h + 1, nxt - 1)

IsHeaderOf(w, node) ==
    /\ w.kind = "frame"
    /\ w.lineno = node.tb_lineno
    /\ w.name = node.co_name
    /\ IsCompactPath(w.path, node.co_filename)

LocalNames(node) == {node.f_locals[i].name : i \in 1..Len(node.f_locals)}

\* a write that belongs to the locals of node
IsLocalsLineOf(w, node) ==
    \/ w.kind \in {"no_locals", "no_relevant"}
    \/ w.kind = "var" /\ w.name \in LocalNames(node)

Returned == outcome = "returned"

\* the frames of the chain that qualify under the environment of the call
Qualifying == SelectSeq(exc_tb, LAMBDA n : Matches(call_environ, n.co_filename))

(***************************************************************************)
(* C1: when every frame of a (non-empty) chain matches the user-code       *)
(* pattern set, the call writes, after the base trace, exactly one section *)
(* header, first, and then for each frame of the chain, in chain order,    *)
(* its header followed at once by lines of that frame's own locals: every  *)
(* frame once, none missing.  (The empty chain is the case of C2; a call   *)
(* whose delegate failed never reaches the focused section.)               *)
(***************************************************************************)
C1_AllUserFrames ==
    (/\ Returned
     /\ exc_tb # <<>>
     /\ \A i \in 1..Len(exc_tb) : Matches(call_environ, exc_tb[i].co_filename))
    =>
    LET b == Focused(sio)
    IN  /\ sio[1].kind = "base"
        /\ Len(b) > 0
        /\ b[1].kind = "section"
        /\ Cardinality({i \in 1..Len(b) : b[i].kind = "section"}) = 1
        /\ Cardinality(HeaderPositions(b)) = Len(exc_tb)
        /\ 2 \in HeaderPositions(b)
        /\ \A k \in 1..Len(exc_tb) :
              /\ IsHeaderOf(b[KthHeader(b, k)], exc_tb[k])
              /\ SegmentOf(b, k) # <<>>
              /\ \A j \in 1..Len(SegmentOf(b, k)) :
                    IsLocalsLineOf(SegmentOf(b, k)[j], exc_tb[k])

C1_Witness ==
    /\ Returned
    /\ Len(exc_tb) >= 3
    /\ \A i \in 1..Len(exc_tb) : Matches(call_environ, exc_tb[i].co_filename)
    /\ \E i, j \in 1..Len(exc_tb) :
          /\ exc_tb[i].co_filename # exc_tb[j].co_filename
          /\ ~MatchesDefault(exc_tb[j].co_filename)
    /\ Len(sio) > Len(exc_tb) + 2

(***************************************************************************)
(* C2: when no frame of the chain matches the user-code pattern set (the   *)
(* empty chain included), the focused section is absent: the base trace is *)
(* the only write of the call, and the call returns.                       *)
(***************************************************************************)
NoFrameMatches ==
    \A i \in 1..Len(exc_tb) : ~Matches(call_environ, exc_tb[i].co_filename)

C2_NoUserFrames ==
    (calls > 0 /\ NoFrameMatches) =>
        /\ outcome \in {"returned", "DelegateError"}
        /\ Returned => Len(sio) = 1 /\ sio[1].kind = "base"
        /\ \A i \in 1..Len(sio) : sio[i].kind # "section"

C2_Witness ==
    /\ Returned
    /\ NoFrameMatches
    /\ Len(exc_tb) >= 2
    /\ \E i \in 1..Len(exc_tb) : exc_tb[i].co_filename = Proj.co_filename
    /\ Len(sio) = 1

C2_WitnessEmptyChain == Returned /\ exc_tb = <<>> /\ Len(sio) = 1

(***************************************************************************)
(* C3: every frame the focused section shows with locals is a frame the    *)
(* base trace shows, for every chain length.                               *)
(***************************************************************************)
ShownInBase(w) ==
    \E f \in sio[1].frames :
        /\ f.tb_lineno = w.lineno
        /\ f.co_name = w.name
        /\ IsCompactPath(w.path, f.co_filename)

C3_LocalsSubsetOfBase ==
    Returned =>
        \A i \in 2..Len(sio) : sio[i].kind = "frame" => ShownInBase(sio[i])

(***************************************************************************)
(* Frames with generated locals: every dict of at most MaxLocals bindings  *)
(* over the names x, y, _t, self, cls and the values: a callable, a value  *)
(* whose repr() raises, and data whose repr() has 0..MaxRepr characters.   *)
(***************************************************************************)
GenNames == {X, Y, UT, SELF, CLS}
ReprAlphabet == <<"a", "b", "c", "d", "e", "f", "g", "h">>
GenValues ==
    {Callable, Hostile} \cup {Data(SubSeq(ReprAlphabet, 1, k)) : k \in 0..MaxRepr}
GenBindings == {Bind(n, v) : n \in GenNames, v \in GenValues}
GenLocals ==
    {d \in UNION {[1..k -> GenBindings] : k \in 0..MaxLocals} :
        \A i, j \in 1..Len(d) : d[i].name = d[j].name => i = j}

Gen(locals) ==
    TbNode(<<"a", "p", "p", "/", "g", ".", "p", "y">>, 0, <<"g">>, locals)

\* a user frame holding a value whose repr() raises
UserHostile ==
    TbNode(<<"t", "e", "s", "t", "s", "/", "t", ".", "p", "y">>, 0, <<"t">>,
           <<Bind(<<"v">>, Hostile), Bind(<<"w">>, Data(<<"7">>))>>)

LocalsChains ==
    {Numbered(<<Gen(d)>>) : d \in GenLocals}
    \cup {Numbered(<<UserHostile, Gen(d), Lib>>) : d \in GenLocals}

LocalsMaxStringChoices == {1, 2}

InitLocals ==
    /\ environ = EmptyEnviron
    /\ formatter \in [width : {100}, max_frames : {50},
                      locals_max_string : LocalsMaxStringChoices]
    /\ exc_tb \in LocalsChains
    /\ NoCallYet
    /\ ClassifierIdle
    /\ LoggerIdle
    /\ ProcessorIdle
    /\ HistoryIdle
    /\ WalkIdle

first_call == calls = 0 /\ __call__ /\ UNCHANGED seen

SpecLocals == InitLocals /\ [][first_call]_vars

\* the filter of the claim, binding by binding
Dropped(b) ==
    \/ (b.name # <<>> /\ b.name[1] = "_")
    \/ b.name = <<"s", "e", "l", "f">>
    \/ b.name = <<"c", "l", "s">>
    \/ b.value.callable

Survivors(node) == {i \in 1..Len(node.f_locals) : ~Dropped(node.f_locals[i])}

IndexOfName(node, n) == CHOOSE i \in 1..Len(node.f_locals) : node.f_locals[i].name = n

VarLines(seg) == SelectSeq(seg, LAMBDA w : w.kind = "var")

\* every qualifying frame has its header, so that its segment is defined
HeadersMatchQualifying ==
    Cardinality(HeaderPositions(Focused(sio))) = Len(Qualifying)

(***************************************************************************)
(* C4: for every user-code frame the names rendered are the frame's local  *)
(* names minus those starting with an underscore, minus self and cls,      *)
(* minus those bound to a callable: no other name dropped, none added,     *)
(* none repeated, and in the binding order of the frame.                   *)
(***************************************************************************)
C4_FilteringLaw ==
    Returned =>
        /\ HeadersMatchQualifying
        /\ \A k \in 1..Len(Qualifying) :
              LET node == Qualifying[k]
                  lines == VarLines(SegmentOf(Focused(sio), k))
              IN  /\ {lines[j].name : j \in 1..Len(lines)}
                        = {node.f_locals[i].name : i \in Survivors(node)}
                  /\ Len(lines) = Cardinality(Survivors(node))
                  /\ \A i, j \in 1..Len(lines) :
                        i < j => IndexOfName(node, lines[i].name)
                                     < IndexOfName(node, lines[j].name)

C4_Witness ==
    /\ Returned
    /\ Len(exc_tb) = 1
    /\ Len(exc_tb[1].f_locals) = 2
    /\ exc_tb[1].f_locals[1].name = Y
    /\ exc_tb[1].f_locals[2].name = X
    /\ Survivors(exc_tb[1]) = {1, 2}
    /\ Len(sio) = 5

C4_WitnessDropped ==
    /\ Returned
    /\ Len(exc_tb) = 1
    /\ Len(exc_tb[1].f_locals) = 2
    /\ exc_tb[1].f_locals[1].value.callable
    /\ Survivors(exc_tb[1]) = {2}
    /\ Len(sio) = 4

(***************************************************************************)
(* C5: a rendered representation longer than locals_max_string is emitted  *)
(* as its first locals_max_string characters followed by "...", so with    *)
(* length locals_max_string + 3; one of at most locals_max_string          *)
(* characters is emitted unchanged.                                        *)
(***************************************************************************)
C5_TruncationLaw ==
    Returned =>
        /\ HeadersMatchQualifying
        /\ \A k \in 1..Len(Qualifying) :
              LET node == Qualifying[k]
                  lines == VarLines(SegmentOf(Focused(sio), k))
                  max == formatter.locals_max_string
              IN  \A j \in 1..Len(lines) :
                      LET v == node.f_locals[IndexOfName(node, lines[j].name)].value
                          r == v.repr_text
                          t == lines[j].text
                      IN  v.repr_ok =>
                            IF Len(r) > max
                            THEN /\ Len(t) = max + 3
                                 /\ \A c \in 1..max : t[c] = r[c]
                                 /\ \A c \in (max + 1)..(max + 3) : t[c] = "."
                            ELSE t = r

C5_Witness ==
    /\ Returned
    /\ Len(exc_tb) = 1
    /\ formatter.locals_max_string = 2
    /\ \E i \in Survivors(exc_tb[1]) :
          /\ exc_tb[1].f_locals[i].value.repr_ok
          /\ Len(exc_tb[1].f_locals[i].value.repr_text) = 3
    /\ \E i \in 1..Len(sio) : sio[i].kind = "var" /\ Len(sio[i].text) = 5

(***************************************************************************)
(* C6: a local whose repr() raises does not make the format call raise;    *)
(* its line, and no other, carries the placeholder, and every other write  *)
(* of the call is what it is when the value's repr() returns instead.      *)
(***************************************************************************)
Benign(tb) ==
    [i \in 1..Len(tb) |->
        [tb[i] EXCEPT !.f_locals =
            [j \in 1..Len(tb[i].f_locals) |->
                IF tb[i].f_locals[j].value.repr_ok THEN tb[i].f_locals[j]
                ELSE Bind(tb[i].f_locals[j].name, Data(<<"a">>))]]]

ReprRaises(node, n) == ~node.f_locals[IndexOfName(node, n)].value.repr_ok

C6_HostileValue ==
    /\ outcome # "ReprError"
    /\ Returned =>
          LET benign == format_writes(formatter, call_environ, Benign(exc_tb))
          IN  /\ HeadersMatchQualifying
              /\ Len(sio) = Len(benign)
              /\ \A k \in 1..Len(Qualifying) :
                    LET node == Qualifying[k]
                        seg == SegmentOf(Focused(sio), k)
                        was == SegmentOf(Focused(benign), k)
                    IN  /\ Len(seg) = Len(was)
                        /\ \A j \in 1..Len(seg) :
                              IF seg[j].kind = "var" /\ ReprRaises(node, seg[j].name)
                              THEN /\ seg[j].text = REPR_FAILED
                                   /\ was[j].kind = "var"
                                   /\ was[j].name = seg[j].name
                              ELSE /\ seg[j] = was[j]
                                   /\ seg[j].text # REPR_FAILED
              /\ \A i \in 1..Len(sio) :
                    sio[i].kind # "var" => sio[i] = benign[i]

C6_Witness ==
    /\ Returned
    /\ Len(exc_tb) = 3
    /\ Len(exc_tb[2].f_locals) = 2
    /\ ~exc_tb[2].f_locals[1].value.repr_ok
    /\ exc_tb[2].f_locals[2].value.repr_ok
    /\ Survivors(exc_tb[2]) = {1, 2}
    /\ Cardinality({i \in 1..Len(sio) : sio[i].text = REPR_FAILED}) = 2

(***************************************************************************)
(* C7: every qualifying frame is followed by at least one line: exactly    *)
(* one "no local variables" line when it has no locals, exactly one "no    *)
(* relevant local variables" line when it has locals and none survives the *)
(* filter, and otherwise one line per surviving local and no marker.       *)
(***************************************************************************)
C7_ExplicitMarkers ==
    Returned =>
        /\ HeadersMatchQualifying
        /\ \A k \in 1..Len(Qualifying) :
              LET node == Qualifying[k]
                  seg == SegmentOf(Focused(sio), k)
              IN  /\ Len(seg) >= 1
                  /\ node.f_locals = <<>> =>
                        Len(seg) = 1 /\ seg[1].kind = "no_locals"
                  /\ (node.f_locals # <<>> /\ Survivors(node) = {}) =>
                        Len(seg) = 1 /\ seg[1].kind = "no_relevant"
                  /\ Survivors(node) # {} =>
                        /\ Len(seg) = Cardinality(Survivors(node))
                        /\ \A j \in 1..Len(seg) : seg[j].kind = "var"

C7_Witness ==
    /\ Returned
    /\ Len(exc_tb) = 3
    /\ exc_tb[2].f_locals # <<>>
    /\ Survivors(exc_tb[2]) = {}
    /\ \E i \in 1..Len(sio) : sio[i].kind = "no_relevant"

C7_WitnessNoLocals ==
    /\ Returned
    /\ Len(exc_tb) = 1
    /\ exc_tb[1].f_locals = <<>>
    /\ Len(sio) = 4
    /\ sio[4].kind = "no_locals"

(***************************************************************************)
(* The classifier on its own: _is_user_code_frame(filename) under every    *)
(* generated value of LOGGER_USER_CODE_PATHS.                              *)
(***************************************************************************)
ClsPathAlphabet == {"a", "A", "/"}
ClsEnvAlphabet == {"a", "A", ",", " "}

ClsFixedPaths ==
    {<<"s", "r", "c", "/", "a">>,
     <<"x", "/", "a", "p", "p", "/">>,
     <<"t", "e", "s", "t", "s", "/", "A">>,
     <<"d", "c", "c", "_", "b", "a", "c", "k", "e", "n", "d", "_", "c", "o", "m", "m", "o", "n">>,
     <<"S", "r", "c", "/", "a">>,
     <<"s", "r", "c">>,
     <<"l", "i", "b", "/", "a", " ", "A">>}

ClsPaths == TextsUpTo(ClsPathAlphabet, MaxPathLen) \cup ClsFixedPaths

ClsEnvValues ==
    {Unset}
    \cup {SetTo(t) : t \in TextsUpTo(ClsEnvAlphabet, MaxEnvLen)}
    \cup {SetTo(<<"\t", "a", " ", "A", "\t", ",", "l", "i", "b">>)}

InitClassify ==
    /\ environ \in {[EmptyEnviron EXCEPT !["LOGGER_USER_CODE_PATHS"] = v] :
                       v \in ClsEnvValues}
    /\ filename \in ClsPaths
    /\ answer = "none"
    /\ formatter = [width |-> 100, max_frames |-> 50, locals_max_string |-> 80]
    /\ exc_tb = <<>>
    /\ NoCallYet
    /\ LoggerIdle
    /\ ProcessorIdle
    /\ HistoryIdle
    /\ WalkIdle

is_user_code ==
    /\ answer = "none"
    /\ answer' = IF _is_user_code_frame(environ, filename) THEN "true" ELSE "false"
    /\ UNCHANGED <<environ, filename, fmt_vars, log_vars, ext_vars, seen>>

SpecClassify == InitClassify /\ [][is_user_code]_vars

(***************************************************************************)
(* C8: is_user_code(path) is true exactly when some pattern of the four    *)
(* defaults or of the comma-separated entries of LOGGER_USER_CODE_PATHS    *)
(* (trimmed, the empty ones dropped) occurs in the path, character for     *)
(* character.  So a path matching a default matches under every override,  *)
(* and an override of commas and whitespace classifies as the defaults do. *)
(***************************************************************************)
OnlyCommasAndWhitespace(e) ==
    e.set /\ \A i \in 1..Len(e.val) : e.val[i] \in {","} \cup Whitespace

C8_Classifier ==
    answer # "none" =>
        /\ (answer = "true") <=> Matches(environ, filename)
        /\ MatchesDefault(filename) => answer = "true"
        /\ OnlyCommasAndWhitespace(environ["LOGGER_USER_CODE_PATHS"]) =>
              ((answer = "true") <=> MatchesDefault(filename))

\* a path that matches only through an entry that had to be trimmed
C8_Witness ==
    /\ answer = "true"
    /\ ~MatchesDefault(filename)
    /\ environ["LOGGER_USER_CODE_PATHS"].val = <<",", " ", "A", " ">>
    /\ filename = <<"a", "/", "A">>

C8_WitnessCaseSensitive ==
    /\ answer = "false"
    /\ environ["LOGGER_USER_CODE_PATHS"].val = <<"a">>
    /\ filename = <<"A", "/", "A">>

(***************************************************************************)
(* logger.py: the logger initialisation.                                   *)
(***************************************************************************)
TRUE_TEXT == <<"t", "r", "u", "e">>
FALSE_TEXT == <<"f", "a", "l", "s", "e">>
INFO_TEXT == <<"I", "N", "F", "O">>

\* class DevTracebackStyle(StrEnum): lines 20-24
FOCUSED == <<"f", "o", "c", "u", "s", "e", "d">>
RICH == <<"r", "i", "c", "h">>
DevTracebackStyle == {FOCUSED, RICH}

\* getattr(logging, log_level, logging.INFO): line 47
logging_level(log_level) ==
    CASE log_level = <<"D", "E", "B", "U", "G">> -> 10
      [] log_level = INFO_TEXT -> 20
      [] log_level = <<"W", "A", "R", "N", "I", "N", "G">> -> 30
      [] log_level = <<"E", "R", "R", "O", "R">> -> 40
      [] log_level = <<"C", "R", "I", "T", "I", "C", "A", "L">> -> 50
      [] OTHER -> 20

\* setup_stdlib_logging, lines 43-56: the root logger after the call
setup_stdlib_logging(env, root) ==
    LET log_level == str_upper(getenv(env, "LOG_LEVEL", INFO_TEXT))
    IN  [level |-> logging_level(log_level), handlers |-> root.handlers + 1]

\* dcc_backend_common.config.get_env_or_throw: the value, or an error when
\* the variable is absent
get_env_or_throw(env, name) ==
    [raised |-> ~env[name].set, value |-> env[name].val]

\* A processor of the structlog chain; the final renderer carries the
\* exception formatter it was built with.
Processor(name) ==
    [name |-> name, exception_formatter |-> "none", width |-> 0,
     max_frames |-> 0, show_locals |-> FALSE, locals_max_string |-> 0]

\* A plausible slip: an invalid value falls back to the other member.
get_dev_traceback_style_fallback_rich(env) ==
    LET style == str_lower(getenv(env, "DEV_TRACEBACK_STYLE", FOCUSED))
    IN  IF style \in DevTracebackStyle THEN style ELSE RICH

\* Lines 97-110.
_get_dev_traceback_style(env) ==
    LET style == str_lower(getenv(env, "DEV_TRACEBACK_STYLE", FOCUSED))
    IN  IF style \in DevTracebackStyle THEN style ELSE FOCUSED

\* Lines 113-142.
_get_dev_console_renderer(env) ==
    LET style == _get_dev_traceback_style(env)
    IN  IF style = RICH
        THEN [name |-> "ConsoleRenderer",
              exception_formatter |-> "RichTracebackFormatter",
              width |-> 120, max_frames |-> 30, show_locals |-> TRUE,
              locals_max_string |-> 0]
        ELSE [name |-> "ConsoleRenderer",
              exception_formatter |-> "FocusedTracebackFormatter",
              width |-> 120, max_frames |-> 30, show_locals |-> FALSE,
              locals_max_string |-> 120]

\* Lines 161-175.
base_processors ==
    <<Processor("filter_by_level"), Processor("add_log_level"),
      Processor("StackInfoRenderer"), Processor("add_timestamp"),
      Processor("add_request_id"), Processor("CallsiteParameterAdder"),
      Processor("UnicodeDecoder")>>

\* A plausible slip: a missing IS_PROD is read as "false".
processors_defaulting_to_dev(env) ==
    IF str_lower(getenv(env, "IS_PROD", FALSE_TEXT)) = TRUE_TEXT
    THEN [raised |-> FALSE,
          processors |-> Append(base_processors, Processor("JSONRenderer"))]
    ELSE [raised |-> FALSE,
          processors |-> Append(base_processors, _get_dev_console_renderer(env))]

\* Lines 161-183: the processors list, or the error of get_env_or_throw.
processors(env) ==
    LET is_prod == get_env_or_throw(env, "IS_PROD")
    IN  IF is_prod.raised THEN [raised |-> TRUE, processors |-> <<>>]
        ELSE IF str_lower(is_prod.value) = TRUE_TEXT
        THEN [raised |-> FALSE,
              processors |-> Append(base_processors, Processor("JSONRenderer"))]
        ELSE [raised |-> FALSE,
              processors |-> Append(base_processors, _get_dev_console_renderer(env))]

\* Lines 145-192.
init_logger ==
    /\ root_logger.handlers < MaxHandlers
    /\ root_logger' = setup_stdlib_logging(environ, root_logger)
    /\ lib_propagate' = FALSE
    /\ LET built == processors(environ)
       IN  IF built.raised
           THEN /\ init_outcome' = "raised"
                /\ UNCHANGED <<structlog_config, configured_environ>>
           ELSE /\ structlog_config' = [is_configured |-> TRUE,
                                        processors |-> built.processors]
                /\ configured_environ' = environ
                /\ init_outcome' = "ok"
    /\ UNCHANGED <<environ, fmt_vars, cls_vars, ext_vars, seen>>

\* os.environ[name] = value, del os.environ[name]
EnvChoices(name) ==
    CASE name = "IS_PROD" ->
            {Unset, SetTo(TRUE_TEXT), SetTo(<<"T", "r", "u", "e">>), SetTo(FALSE_TEXT)}
      [] name = "DEV_TRACEBACK_STYLE" ->
            {Unset, SetTo(FOCUSED), SetTo(RICH), SetTo(<<"R", "I", "C", "H">>),
             SetTo(<<"r", "i", "c">>)}
      [] name = "LOG_LEVEL" -> {Unset, SetTo(<<"d", "e", "b", "u", "g">>)}
      [] OTHER -> {Unset}

set_env ==
    /\ \E name \in {"IS_PROD", "DEV_TRACEBACK_STYLE"} :
          \E v \in EnvChoices(name) :
              /\ v # environ[name]
              /\ environ' = [environ EXCEPT ![name] = v]
    /\ UNCHANGED <<fmt_vars, cls_vars, log_vars, ext_vars, seen>>

\* The final processor of the installed chain.
final_renderer == structlog_config.processors[Len(structlog_config.processors)]

LogChains == {Numbered(<<UserSrc, Lib>>), Numbered(<<Lib>>)}

\* logger.exception(...): the installed final renderer renders the event; a
\* ConsoleRenderer hands the exception to its exception_formatter.
log_exception ==
    /\ structlog_config.is_configured
    /\ calls = 0
    /\ \E tb \in LogChains :
          /\ exc_tb' = tb
          /\ sio' =
               IF final_renderer.exception_formatter = "FocusedTracebackFormatter"
               THEN format_writes(
                        [width |-> final_renderer.width,
                         max_frames |-> final_renderer.max_frames,
                         locals_max_string |-> final_renderer.locals_max_string],
                        environ, tb)
               ELSE IF final_renderer.exception_formatter = "RichTracebackFormatter"
               THEN <<Write("rich_locals", <<>>, 0, <<>>, <<>>,
                            {FrameId(tb[i]) :
                                i \in RichShown(final_renderer.max_frames, Len(tb))})>>
               ELSE <<Write("json", <<>>, 0, <<>>, <<>>, {})>>
    /\ outcome' = "returned"
    /\ calls' = calls + 1
    /\ call_environ' = environ
    /\ UNCHANGED <<environ, formatter, cls_vars, log_vars, ext_vars, seen>>

InitLogger ==
    /\ environ \in {[EmptyEnviron EXCEPT !["LOG_LEVEL"] = v] :
                       v \in EnvChoices("LOG_LEVEL")}
    /\ formatter = [width |-> 100, max_frames |-> 50, locals_max_string |-> 80]
    /\ exc_tb = <<>>
    /\ NoCallYet
    /\ ClassifierIdle
    /\ LoggerIdle
    /\ ProcessorIdle
    /\ HistoryIdle
    /\ WalkIdle

NextLogger == init_logger \/ set_env \/ log_exception

SpecLogger == InitLogger /\ [][NextLogger]_vars

\* an upper-case letter and its lower-case form
UpperLower ==
    {<<"T", "t">>, <<"R", "r">>, <<"U", "u">>, <<"E", "e">>, <<"I", "i">>,
     <<"C", "c">>, <<"H", "h">>, <<"F", "f">>, <<"O", "o">>, <<"S", "s">>,
     <<"D", "d">>}

\* s spells the lower-case word w, whatever the case of its letters
Spells(s, w) ==
    /\ Len(s) = Len(w)
    /\ \A i \in 1..Len(w) : s[i] = w[i] \/ <<s[i], w[i]>> \in UpperLower

\* production mode, and the rich style, as init_logger read them
ProductionMode(env) ==
    env["IS_PROD"].set /\ Spells(env["IS_PROD"].val, <<"t", "r", "u", "e">>)
RichStyle(env) ==
    /\ env["DEV_TRACEBACK_STYLE"].set
    /\ Spells(env["DEV_TRACEBACK_STYLE"].val, <<"r", "i", "c", "h">>)

\* a step of init_logger: it always adds a handler to the root logger
InitStep == root_logger'.handlers = root_logger.handlers + 1
\* a step that logs an exception
LogStep == calls' = calls + 1

(***************************************************************************)
(* C9: the installed final renderer is the one chosen from IS_PROD and     *)
(* DEV_TRACEBACK_STYLE as they were at the last successful init_logger:    *)
(* JSON, never the focused formatter, in production mode whatever the      *)
(* style; the full-locals rich formatter in development with style rich    *)
(* (no focused-section header is then written); the focused formatter in   *)
(* development with style focused, unset or unrecognized, the call not     *)
(* failing.  A change of the environment leaves the installed renderer as  *)
(* it is until init_logger runs again.                                     *)
(***************************************************************************)
C9_Installed ==
    structlog_config.is_configured =>
        /\ configured_environ["IS_PROD"].set
        /\ ProductionMode(configured_environ) =>
              /\ final_renderer.name = "JSONRenderer"
              /\ final_renderer.exception_formatter = "none"
        /\ (~ProductionMode(configured_environ) /\ RichStyle(configured_environ)) =>
              /\ final_renderer.name = "ConsoleRenderer"
              /\ final_renderer.exception_formatter = "RichTracebackFormatter"
              /\ final_renderer.show_locals
        /\ (~ProductionMode(configured_environ) /\ ~RichStyle(configured_environ)) =>
              /\ final_renderer.name = "ConsoleRenderer"
              /\ final_renderer.exception_formatter = "FocusedTracebackFormatter"

C9_Step ==
    /\ (InitStep /\ environ["IS_PROD"].set) =>
          /\ init_outcome' = "ok"
          /\ configured_environ' = environ
    /\ ~InitStep => structlog_config' = structlog_config
    /\ (LogStep /\ final_renderer.exception_formatter # "FocusedTracebackFormatter") =>
          \A i \in 1..Len(sio') : sio'[i].kind # "section"

C9_RendererByEnvironment == []C9_Installed /\ [][C9_Step]_vars

\* rich was installed, the style then changed, and an exception was logged
C9_Witness ==
    /\ init_outcome = "ok"
    /\ final_renderer.exception_formatter = "RichTracebackFormatter"
    /\ configured_environ["DEV_TRACEBACK_STYLE"].val = <<"R", "I", "C", "H">>
    /\ environ["DEV_TRACEBACK_STYLE"].val = <<"r", "i", "c">>
    /\ ~environ["IS_PROD"].set
    /\ calls = 1
    /\ Len(exc_tb) = 2
    /\ Len(sio) = 1

C9_WitnessUnrecognized ==
    /\ init_outcome = "ok"
    /\ configured_environ["DEV_TRACEBACK_STYLE"].val = <<"r", "i", "c">>
    /\ final_renderer.exception_formatter = "FocusedTracebackFormatter"
    /\ calls = 1
    /\ \E i \in 1..Len(sio) : sio[i].kind = "section"

C9_WitnessProduction ==
    /\ init_outcome = "ok"
    /\ configured_environ["IS_PROD"].val = <<"T", "r", "u", "e">>
    /\ RichStyle(configured_environ)
    /\ final_renderer.name = "JSONRenderer"

(***************************************************************************)
(* C10: an init_logger call made while IS_PROD is absent ends with an      *)
(* error; it installs no renderer: the structlog configuration is after    *)
(* the call what it was before it.                                         *)
(***************************************************************************)
C10_Step ==
    (InitStep /\ ~environ["IS_PROD"].set) =>
        /\ init_outcome' = "raised"
        /\ structlog_config' = structlog_config

C10_MissingIsProd == [][C10_Step]_vars

C10_Witness ==
    /\ init_outcome = "raised"
    /\ ~structlog_config.is_configured
    /\ root_logger.handlers = 1
    /\ ~environ["IS_PROD"].set

\* a failed call after a successful one: the earlier renderer stays
C10_WitnessAfterSuccess ==
    /\ init_outcome = "raised"
    /\ structlog_config.is_configured
    /\ final_renderer.name = "JSONRenderer"
    /\ ~environ["IS_PROD"].set

\* In SpecLogger a step that neither sets a variable of the environment nor
\* logs is a call of init_logger.
InitLoggerCall == environ' = environ /\ calls' = calls

(***************************************************************************)
(* C11: init_logger called again with the environment as it was at the     *)
(* previous, successful call leaves the process-wide logging state as that *)
(* call left it: the root logger's level and handlers, the propagate flag  *)
(* and the structlog processor chain.                                      *)
(***************************************************************************)
C11_Step ==
    (InitLoggerCall /\ init_outcome = "ok" /\ configured_environ = environ) =>
        /\ root_logger' = root_logger
        /\ lib_propagate' = lib_propagate
        /\ structlog_config' = structlog_config

C11_InitIdempotent == [][C11_Step]_vars

(***************************************************************************)
(* C17: an init_logger call that aborts because IS_PROD is missing leaves  *)
(* the root logger's level and handlers, the propagate flag of the library *)
(* loggers and the structlog configuration as they were before the call.   *)
(***************************************************************************)
C17_Step ==
    (InitLoggerCall /\ ~environ["IS_PROD"].set) =>
        /\ root_logger' = root_logger
        /\ lib_propagate' = lib_propagate
        /\ structlog_config' = structlog_config

C17_FailedInitLeavesState == [][C17_Step]_vars

(***************************************************************************)
(* logger.py: the enrichment processors add_timestamp and add_request_id,  *)
(* which init_logger puts in this order into the chain (lines 164-165).    *)
(* A record is a function from the names of its fields to their values.    *)
(***************************************************************************)
REQUEST_ID == "request_id"
TIMESTAMP == "timestamp"

\* event_dict[key] = value
dict_set(d, key, value) ==
    [k \in DOMAIN d \cup {key} |-> IF k = key THEN value ELSE d[k]]

\* A plausible slip: the identifier is set whether or not one was supplied.
set_request_id_always(d, new_id) == dict_set(d, REQUEST_ID, new_id)

\* Lines 76-78: the body of add_request_id, uuid.uuid4() having given new_id.
set_request_id(d, new_id) ==
    IF REQUEST_ID \notin DOMAIN d THEN dict_set(d, REQUEST_ID, new_id) ELSE d

\* str(uuid.uuid4()) and time.strftime(...): what the generators may return
Uuids == {"u1", "u2"}
Times == {"t1", "t2"}

\* Lines 81-94.
add_timestamp ==
    /\ pc = "add_timestamp"
    /\ \E now \in Times : event_dict' = dict_set(event_dict, TIMESTAMP, now)
    /\ pc' = "add_request_id"
    /\ UNCHANGED <<environ, fmt_vars, cls_vars, log_vars, seen,
                   current_tb, walk_user_frames, heap, snapshot>>

\* Lines 64-78.
add_request_id ==
    /\ pc = "add_request_id"
    /\ \E new_id \in Uuids : event_dict' = set_request_id(event_dict, new_id)
    /\ pc' = "rendering"
    /\ UNCHANGED <<environ, fmt_vars, cls_vars, log_vars, seen,
                   current_tb, walk_user_frames, heap, snapshot>>

\* The records a caller hands in: any of these fields, with any of these
\* values (a caller may supply None, or a timestamp of its own).
FieldNames == {"event", "user", REQUEST_ID, TIMESTAMP}
FieldValues == {"a", "None"}
EventDicts == UNION {[ks -> FieldValues] : ks \in SUBSET FieldNames}

InitProcessors ==
    /\ environ = EmptyEnviron
    /\ formatter = [width |-> 100, max_frames |-> 50, locals_max_string |-> 80]
    /\ exc_tb = <<>>
    /\ NoCallYet
    /\ ClassifierIdle
    /\ LoggerIdle
    /\ HistoryIdle
    /\ event_dict \in EventDicts
    /\ pc = "add_timestamp"
    /\ current_tb = 0
    /\ walk_user_frames = <<>>
    /\ heap = <<>>
    /\ snapshot = <<>>

NextProcessors == add_timestamp \/ add_request_id

SpecProcessors == InitProcessors /\ [][NextProcessors]_vars

(***************************************************************************)
(* C12: the step of add_request_id leaves a record that has a request_id;  *)
(* a request_id the record came with is the one it leaves with; one that   *)
(* is inserted is a generated identifier; every other field is there as    *)
(* before and no other field is added.                                     *)
(***************************************************************************)
C12_Step ==
    (pc = "add_request_id" /\ pc' = "rendering") =>
        /\ REQUEST_ID \in DOMAIN event_dict'
        /\ REQUEST_ID \in DOMAIN event_dict =>
              event_dict'[REQUEST_ID] = event_dict[REQUEST_ID]
        /\ REQUEST_ID \notin DOMAIN event_dict =>
              event_dict'[REQUEST_ID] \in Uuids
        /\ DOMAIN event_dict' = DOMAIN event_dict \cup {REQUEST_ID}
        /\ \A k \in DOMAIN event_dict \ {REQUEST_ID} :
              event_dict'[k] = event_dict[k]

C12_RequestId == [][C12_Step]_vars

\* an identifier was inserted into a record that came with other fields
C12_Witness ==
    /\ pc = "rendering"
    /\ event_dict[REQUEST_ID] \in Uuids
    /\ "event" \in DOMAIN event_dict
    /\ "user" \in DOMAIN event_dict

\* a supplied request_id, here None, went through
C12_WitnessSupplied ==
    /\ pc = "rendering"
    /\ event_dict[REQUEST_ID] = "None"

(***************************************************************************)
(* Format calls one after the other, on the exception of the call before   *)
(* or on another one, the environment changing in between or not.  `seen`  *)
(* keeps, of every call made, what went in and what was written.           *)
(***************************************************************************)
RepeatChains ==
    {Numbered(<<UserSrc, Lib>>), Numbered(<<Proj>>),
     Numbered(<<Lib, Proj, UserSrc>>)}

\* another exception is caught and will be the one formatted next
catch_exception ==
    /\ \E tb \in RepeatChains : tb # exc_tb /\ exc_tb' = tb
    /\ UNCHANGED <<environ, formatter, sio, outcome, calls, call_environ,
                   cls_vars, log_vars, ext_vars, seen>>

format_call ==
    /\ __call__
    /\ seen' = seen \cup {[n |-> calls', self |-> formatter, env |-> environ,
                           exc |-> exc_tb, outcome |-> outcome',
                           written |-> sio']}

InitRepeat ==
    /\ environ \in {[EmptyEnviron EXCEPT !["LOGGER_USER_CODE_PATHS"] = v] :
                       v \in UserCodePathsChoices}
    /\ formatter \in [width : {100}, max_frames : MaxFramesChoices,
                      locals_max_string : {80}]
    /\ exc_tb \in RepeatChains
    /\ NoCallYet
    /\ ClassifierIdle
    /\ LoggerIdle
    /\ ProcessorIdle
    /\ HistoryIdle
    /\ WalkIdle

NextRepeat == format_call \/ set_user_code_paths \/ catch_exception

SpecRepeat == InitRepeat /\ [][NextRepeat]_vars

\* the calls in which the delegate rendered the base trace
Rendered == {c \in seen : c.outcome # "DelegateError"}

(***************************************************************************)
(* C13: two format calls of one formatter on the same exception under the  *)
(* same environment write the same, whatever calls were made before them   *)
(* or between them (the delegate having rendered the base trace in both).  *)
(***************************************************************************)
C13_Stateless ==
    \A a, b \in Rendered :
        (a.self = b.self /\ a.env = b.env /\ a.exc = b.exc) =>
            (a.written = b.written /\ a.outcome = b.outcome)

\* three calls: the third on the exception of the first, under the same
\* environment, after a call on another exception; it wrote the focused section
C13_Witness ==
    /\ \E a, b, c \in Rendered :
          /\ a.n = 1 /\ b.n = 2 /\ c.n = 3
          /\ a.env = c.env
          /\ a.exc = c.exc
          /\ b.exc # a.exc
          /\ c.written = a.written
          /\ \E i \in 1..Len(c.written) : c.written[i].kind = "section"

(***************************************************************************)
(* C16: a format call in which the delegate renderer fails ends with the   *)
(* delegate's error, and nothing was written to the sink by that call:     *)
(* neither a base trace, whole or partial, nor a focused section.          *)
(***************************************************************************)
C16_Step ==
    (calls' = calls + 1) =>
        /\ outcome' \in {"returned", "ReprError", "DelegateError"}
        /\ outcome' = "DelegateError" => sio' = <<>>
        /\ outcome' # "DelegateError" =>
              (sio' # <<>> /\ sio'[1].kind = "base")

C16_DelegateFailure ==
    [](outcome = "DelegateError" => sio = <<>>) /\ [][C16_Step]_vars

\* the delegate failed in the second call, on a chain with user-code frames
C16_Witness ==
    /\ outcome = "DelegateError"
    /\ sio = <<>>
    /\ calls = 2
    /\ walk(call_environ, exc_tb, <<>>) # <<>>

(***************************************************************************)
(* The format call step by step, _print_user_code_locals lines 87-144:     *)
(* one step per iteration of the while loop, so that what other threads,   *)
(* or a frame that is still running, do between two iterations and before  *)
(* the rendering is seen.  A local name is bound to an object, a reference *)
(* into `heap`; frame.f_locals.copy() copies the bindings, not the         *)
(* objects, and repr() reads the object when the frame is rendered.        *)
(***************************************************************************)
Refs == {1, 2}
Z == <<"z">>

\* the bindings with the objects' values of heap h in the place of the refs
deref(locals, h) ==
    [i \in 1..Len(locals) |-> Bind(locals[i].name, h[locals[i].value])]

\* Lines 96-101: the dict appended to user_frames for node.
frame_info_of(node) ==
    [filename |-> node.co_filename, lineno |-> node.tb_lineno,
     name |-> node.co_name, locals |-> node.f_locals]

\* Lines 62-82 and 87-90: the base trace is written, the walk starts.
format_begin ==
    /\ pc = "idle"
    /\ calls < MaxCalls
    /\ \E delegate_fails \in BOOLEAN :
          IF delegate_fails
          THEN /\ sio' = <<>>
               /\ outcome' = "DelegateError"
               /\ calls' = calls + 1
               /\ UNCHANGED <<pc, current_tb>>
          ELSE /\ sio' = <<Write("base", <<>>, 0, <<>>, <<>>,
                                 base_trace(formatter, exc_tb))>>
               /\ outcome' = "running"
               /\ pc' = "walking"
               /\ current_tb' = 1
               /\ UNCHANGED calls
    /\ walk_user_frames' = <<>>
    /\ snapshot' = <<>>
    /\ call_environ' = environ
    /\ UNCHANGED <<environ, formatter, exc_tb, cls_vars, log_vars, event_dict,
                   seen, heap>>

\* Lines 91-102: one iteration of the while loop.
walk_step ==
    /\ pc = "walking"
    /\ current_tb <= Len(exc_tb)
    /\ LET node == exc_tb[current_tb]
       IN  IF _is_user_code_frame(environ, node.co_filename)
           THEN /\ walk_user_frames' =
                      Append(walk_user_frames, frame_info_of(node))
                /\ snapshot' =
                      Append(snapshot,
                             [frame_info_of(node) EXCEPT
                                 !.locals = deref(node.f_locals, heap)])
           ELSE UNCHANGED <<walk_user_frames, snapshot>>
    /\ current_tb' = current_tb + 1
    /\ UNCHANGED <<environ, formatter, exc_tb, sio, outcome, calls,
                   call_environ, cls_vars, log_vars, event_dict, seen, pc, heap>>

\* Lines 104-144: current_tb is None; the section is written, the call ends.
render_user_frames ==
    /\ pc = "walking"
    /\ current_tb > Len(exc_tb)
    /\ LET user_frames ==
               [i \in 1..Len(walk_user_frames) |->
                   [walk_user_frames[i] EXCEPT !.locals = deref(@, heap)]]
           ws == IF user_frames = <<>> THEN <<>>
                 ELSE UpToRaise(write_frames(formatter, user_frames,
                          <<Write("section", <<>>, 0, <<>>, <<>>, {})>>))
       IN  /\ sio' = sio \o SelectSeq(ws, LAMBDA w : w # PROPAGATE)
           /\ outcome' = IF Raises(ws) THEN "ReprError" ELSE "returned"
    /\ calls' = calls + 1
    /\ pc' = "idle"
    /\ UNCHANGED <<environ, formatter, exc_tb, call_environ, cls_vars, log_vars,
                   event_dict, seen, current_tb, walk_user_frames, heap,
                   snapshot>>

\* names bound in a frame's locals
BoundNames(locals) == {locals[j].name : j \in 1..Len(locals)}

\* A frame the walk has visited runs on (a generator, a coroutine, a frame of
\* another thread): a name is rebound, removed or added.
frame_runs_on ==
    /\ pc = "walking"
    /\ \E i \in 1..(current_tb - 1) :
          LET locals == exc_tb[i].f_locals
          IN  \/ \E j \in 1..Len(locals), r \in Refs :
                    /\ r # locals[j].value
                    /\ exc_tb' = [exc_tb EXCEPT ![i].f_locals[j].value = r]
              \/ \E j \in 1..Len(locals) :
                    exc_tb' = [exc_tb EXCEPT ![i].f_locals =
                                  SubSeq(locals, 1, j - 1)
                                      \o SubSeq(locals, j + 1, Len(locals))]
              \/ \E r \in Refs :
                    /\ Z \notin BoundNames(locals)
                    /\ exc_tb' = [exc_tb EXCEPT ![i].f_locals =
                                     Append(locals, Bind(Z, r))]
    /\ UNCHANGED <<environ, formatter, sio, outcome, calls, call_environ,
                   cls_vars, log_vars, event_dict, seen, walk_vars>>

\* the values an object may take: a list before and after an append
HeapValues == {Data(<<"a">>), Data(<<"a", "b">>)}

\* An object bound to a local name is mutated in place.
mutate_value ==
    /\ pc = "walking"
    /\ \E r \in Refs, v \in HeapValues :
          /\ v # heap[r]
          /\ heap' = [heap EXCEPT ![r] = v]
    /\ UNCHANGED <<environ, fmt_vars, cls_vars, log_vars, event_dict, seen,
                   pc, current_tb, walk_user_frames, snapshot>>

\* frames whose locals are bound to the objects of the heap
WUser ==
    TbNode(<<"s", "r", "c", "/", "a", ".", "p", "y">>, 0, <<"h">>,
           <<Bind(X, 1)>>)
WProj == TbNode(<<"/", "m", "y", "/", "k", ".", "p", "y">>, 0, <<"k">>,
                <<Bind(Y, 2)>>)
WLib == TbNode(<<"l", "i", "b", "/", "j", ".", "p", "y">>, 0, <<"d">>,
               <<Bind(X, 1)>>)
WalkChains ==
    {Numbered(<<WUser, WProj>>), Numbered(<<WProj, WLib>>),
     Numbered(<<WProj, WProj>>)}

InitWalk ==
    /\ environ \in {[EmptyEnviron EXCEPT !["LOGGER_USER_CODE_PATHS"] = v] :
                       v \in UserCodePathsChoices}
    /\ formatter = [width |-> 100, max_frames |-> 50, locals_max_string |-> 80]
    /\ exc_tb \in WalkChains
    /\ NoCallYet
    /\ ClassifierIdle
    /\ LoggerIdle
    /\ ProcessorIdle
    /\ HistoryIdle
    /\ pc = "idle"
    /\ current_tb = 0
    /\ walk_user_frames = <<>>
    /\ snapshot = <<>>
    /\ heap \in [Refs -> HeapValues]

\* one stepwise call in a behaviour
first_format_begin == calls = 0 /\ format_begin

NextWalk ==
    \/ first_format_begin
    \/ walk_step
    \/ render_user_frames
    \/ set_user_code_paths
    \/ frame_runs_on
    \/ mutate_value

SpecWalk == InitWalk /\ [][NextWalk]_vars

\* a frame as the section names it
KeyOf(f) == [filename |-> f.filename, lineno |-> f.lineno, name |-> f.name]
KeysOf(frames) == [i \in 1..Len(frames) |-> KeyOf(frames[i])]

\* the stepwise call has passed its start, the delegate having rendered
Walked == outcome \in {"running", "returned", "ReprError"}

(***************************************************************************)
(* C14: all frames of one format call are classified against one and the   *)
(* same rule set: there is a value of LOGGER_USER_CODE_PATHS, one the      *)
(* variable had during the call, under which the frames collected are      *)
(* exactly the matching ones of the nodes visited, also when the variable  *)
(* is changed while the call walks the chain.                              *)
(***************************************************************************)
C14_OneRuleSetPerCall ==
    Walked =>
        \E v \in UserCodePathsChoices :
            KeysOf(walk_user_frames) =
                KeysOf(walk([environ EXCEPT !["LOGGER_USER_CODE_PATHS"] = v],
                            SubSeq(exc_tb, 1, current_tb - 1), <<>>))

(***************************************************************************)
(* C15: what a format call has written after the base trace is the         *)
(* focused section of the frames as they were when the walk visited them:  *)
(* their bindings and the values bound then, whatever was rebound, added,  *)
(* removed or mutated between the visit and the rendering.                 *)
(***************************************************************************)
C15_SnapshotAtCapture ==
    (pc = "idle" /\ outcome \in {"returned", "ReprError"}) =>
        Tail(sio) =
            IF snapshot = <<>> THEN <<>>
            ELSE SelectSeq(UpToRaise(write_frames(formatter, snapshot,
                               <<Write("section", <<>>, 0, <<>>, <<>>, {})>>)),
                           LAMBDA w : w # PROPAGATE)

====
